---------------------------- MODULE Spec2Model ----------------------------
(***************************************************************************)
(* A model of docbaseview (server.go): the startup scan that builds the    *)
(* document catalog and the two name indices, the request router with its  *)
(* content handlers, and the two text passes fixLinks and fixEmoji.        *)
(*                                                                         *)
(* Text is a sequence of one-character strings, so that the patterns of    *)
(* the rewrite rules are matched character by character as the regexp and  *)
(* strings packages match them.  A glyph that a rule writes (one or more   *)
(* code points outside ASCII) is one element of the sequence, named by its *)
(* code point: no pattern of the program contains a glyph.                 *)
(***************************************************************************)
EXTENDS Integers, Sequences, FiniteSets, TLC

(***************************************************************************)
(* Bounds of the model.                                                    *)
(***************************************************************************)
\* fragments concatenated into one input text of the text passes
MaxFrags == 3
\* entries of one directory listing
MaxEntries == 2
\* rotations of the dictionary's key order tried as map iteration orders
MaxRot == 0

(***************************************************************************)
(* Characters and strings.                                                 *)
(***************************************************************************)
Digits == {"0","1","2","3","4","5","6","7","8","9"}
LowerSeq == <<"a","b","c","d","e","f","g","h","i","j","k","l","m",
              "n","o","p","q","r","s","t","u","v","w","x","y","z">>
UpperSeq == <<"A","B","C","D","E","F","G","H","I","J","K","L","M",
              "N","O","P","Q","R","S","T","U","V","W","X","Y","Z">>
Lowers == {LowerSeq[i] : i \in 1..26}
Uppers == {UpperSeq[i] : i \in 1..26}

\* strings.ToLower, on the ASCII letters
ToLowerCh(c) ==
    IF c \in Uppers THEN LowerSeq[CHOOSE i \in 1..26 : UpperSeq[i] = c] ELSE c
ToLower(s) == [i \in 1..Len(s) |-> ToLowerCh(s[i])]

\* strings.HasSuffix / strings.HasPrefix / strings.TrimPrefix
HasSuffix(s, suf) ==
    /\ Len(suf) <= Len(s)
    /\ SubSeq(s, Len(s) - Len(suf) + 1, Len(s)) = suf
HasPrefix(s, pre) ==
    /\ Len(pre) <= Len(s)
    /\ SubSeq(s, 1, Len(pre)) = pre
TrimPrefix(s, pre) ==
    IF HasPrefix(s, pre) THEN SubSeq(s, Len(pre) + 1, Len(s)) ELSE s

\* the least element of a non-empty set of integers
Min(S) == CHOOSE x \in S : \A y \in S : x <= y

\* whether lit stands in s at position i (1-based)
HasAt(s, i, lit) ==
    /\ i + Len(lit) - 1 <= Len(s)
    /\ SubSeq(s, i, i + Len(lit) - 1) = lit

\* whether lit stands somewhere in s
Contains(s, lit) == \E i \in 1..Len(s) : HasAt(s, i, lit)

\* strings.Index(s, c): the 0-based index of the first occurrence, -1 when
\* there is none
FirstIndex(s, c) ==
    IF \E i \in 1..Len(s) : s[i] = c
    THEN (CHOOSE i \in 1..Len(s) :
              /\ s[i] = c
              /\ \A j \in 1..(i-1) : s[j] # c) - 1
    ELSE -1

\* strings.LastIndex(s, c) for a one-character c: the 0-based index of the
\* last occurrence, -1 when there is none
LastIndex(s, c) ==
    IF \E i \in 1..Len(s) : s[i] = c
    THEN (CHOOSE i \in 1..Len(s) :
              /\ s[i] = c
              /\ \A j \in (i+1)..Len(s) : s[j] # c) - 1
    ELSE -1

\* the Go slice s[k:], k a 0-based index
SliceFrom(s, k) == SubSeq(s, k + 1, Len(s))

\* strings.ReplaceAll(s, old, new) for a non-empty old: the non-overlapping
\* occurrences of old, found left to right
RECURSIVE ReplaceAllFrom(_, _, _, _)
ReplaceAllFrom(s, from, old, new) ==
    LET at == {j \in from..Len(s) : HasAt(s, j, old)}
    IN IF at = {} THEN SubSeq(s, from, Len(s))
       ELSE LET i == Min(at)
            IN SubSeq(s, from, i - 1) \o new
                   \o ReplaceAllFrom(s, i + Len(old), old, new)
ReplaceAll(s, old, new) == ReplaceAllFrom(s, 1, old, new)

\* the number of consecutive characters of s from position i that are in class
SpanLen(s, i, class) ==
    Min({j \in i..(Len(s) + 1) : j = Len(s) + 1 \/ s[j] \notin class}) - i

(***************************************************************************)
(* The patterns of the link rewrite rules (server.go 57-60).  Each         *)
(* XMatchLen(s, i) is the length of the pattern's match that starts at     *)
(* position i of s, 0 when it does not match there; every pattern matches  *)
(* a non-empty text only.  A class followed by + or * is greedy, and in    *)
(* each pattern the character after the class is outside it, so the        *)
(* longest run is the only match.                                          *)
(***************************************************************************)
\* #{([0-9]+)}
MdLinkMatchLen(s, i) ==
    IF HasAt(s, i, <<"#","{">>)
    THEN LET n == SpanLen(s, i + 2, Digits)
         IN IF n >= 1 /\ HasAt(s, i + 2 + n, <<"}">>) THEN n + 3 ELSE 0
    ELSE 0

FileLinkPrefix ==
    <<"h","t","t","p","s",":","/","/","d","o","c","b","a","s","e",".","i","o",
      "/","f","i","l","e","_","a","t","t","a","c","h","m","e","n","t","s","/">>
\* [0-9a-zA-Z.]
FileIdClass == Digits \cup Lowers \cup Uppers \cup {"."}
\* https://docbase\.io/file_attachments/([0-9a-zA-Z.]+): the length of the id
FileLinkIdLen(s, i) ==
    IF HasAt(s, i, FileLinkPrefix)
    THEN SpanLen(s, i + Len(FileLinkPrefix), FileIdClass)
    ELSE 0
FileLinkMatchLen(s, i) ==
    IF FileLinkIdLen(s, i) >= 1
    THEN Len(FileLinkPrefix) + FileLinkIdLen(s, i) ELSE 0

FileIconMid ==
    <<"]","(","/","i","m","a","g","e","s","/","f","i","l","e","_","i","c","o",
      "n","s","/">>
FileIconEnd == <<".","s","v","g",")">>
\* !\[[a-z]+]\(/images/file_icons/[a-z]+\.svg\)
FileIconMatchLen(s, i) ==
    IF HasAt(s, i, <<"!","[">>)
    THEN LET n == SpanLen(s, i + 2, Lowers)
             j == i + 2 + n + Len(FileIconMid)
         IN IF n >= 1 /\ HasAt(s, i + 2 + n, FileIconMid)
            THEN LET m == SpanLen(s, j, Lowers)
                 IN IF m >= 1 /\ HasAt(s, j + m, FileIconEnd)
                    THEN 2 + n + Len(FileIconMid) + m + Len(FileIconEnd)
                    ELSE 0
            ELSE 0
    ELSE 0

ImgLinkPrefix ==
    <<"h","t","t","p","s",":","/","/","i","m","a","g","e",".","d","o","c","b",
      "a","s","e",".","i","o","/","u","p","l","o","a","d","s","/">>
\* [0-9a-zA-Z-.]
ImgIdClass == Digits \cup Lowers \cup Uppers \cup {"-", "."}
\* https://image\.docbase\.io/uploads/([0-9a-zA-Z-.]+)[^)]*: the length of the id
ImgLinkIdLen(s, i) ==
    IF HasAt(s, i, ImgLinkPrefix)
    THEN SpanLen(s, i + Len(ImgLinkPrefix), ImgIdClass)
    ELSE 0
\* the length of the text [^)]* takes from position i: up to the next ")" or
\* the end of the text (the negated class matches a line break too)
NotParenLen(s, i) ==
    Min({j \in i..(Len(s) + 1) : j = Len(s) + 1 \/ s[j] = ")"}) - i
ImgLinkMatchLen(s, i) ==
    IF ImgLinkIdLen(s, i) >= 1
    THEN LET e == i + Len(ImgLinkPrefix) + ImgLinkIdLen(s, i)
         IN Len(ImgLinkPrefix) + ImgLinkIdLen(s, i) + NotParenLen(s, e)
    ELSE 0

(***************************************************************************)
(* The replacement texts of fixLinks (server.go 274-280).                  *)
(***************************************************************************)
LinkGlyph == "U+1F517"
PageGlyph == "U+1F4C4,U+FE0F"
\* the template with the shortcode :link: in place of the link glyph
MdLinkReplShortcode(id) ==
    <<":","l","i","n","k",":"," ","<","a"," ","h","r","e","f","=","\"">> \o id
        \o <<".","m","d","\"",">">> \o id \o <<".","m","d","<","/","a",">">>
\* the template `<link glyph> <a href="$1.md">$1.md</a>` with $1 = id
MdLinkRepl(id) ==
    <<LinkGlyph>> \o <<" ","<","a"," ","h","r","e","f","=","\"">> \o id
        \o <<".","m","d","\"",">">> \o id \o <<".","m","d","<","/","a",">">>
BoxOpen == <<"[", " ", "]">>
BoxDone == <<"[", "x", "]">>
BoxOpenRepl ==
    <<"<","i","n","p","u","t"," ","t","y","p","e","=","\"","c","h","e","c","k",
      "b","o","x","\""," ","d","i","s","a","b","l","e","d",">","<","/","i","n",
      "p","u","t",">">>
BoxDoneRepl ==
    <<"<","i","n","p","u","t"," ","t","y","p","e","=","\"","c","h","e","c","k",
      "b","o","x","\""," ","d","i","s","a","b","l","e","d"," ","c","h","e","c",
      "k","e","d",">","<","/","i","n","p","u","t",">">>
Guidance == <<"/","g","u","i","d","a","n","c","e","/">>
GuidanceRepl ==
    <<"h","t","t","p","s",":","/","/","h","e","l","p",".","d","o","c","b","a",
      "s","e",".","i","o","/","g","u","i","d","a","n","c","e","/">>

(***************************************************************************)
(* Regexp.ReplaceAllString for each pattern: the matches are found left to *)
(* right, leftmost first, and do not overlap.                              *)
(***************************************************************************)
RECURSIVE MdLinkReplaceFrom(_, _)
MdLinkReplaceFrom(s, from) ==
    LET at == {j \in from..Len(s) : MdLinkMatchLen(s, j) > 0}
    IN IF at = {} THEN SubSeq(s, from, Len(s))
       ELSE LET i == Min(at)
                n == MdLinkMatchLen(s, i)
            IN SubSeq(s, from, i - 1)
                   \o MdLinkRepl(SubSeq(s, i + 2, i + n - 2))
                   \o MdLinkReplaceFrom(s, i + n)

RECURSIVE FileLinkReplaceFrom(_, _)
FileLinkReplaceFrom(s, from) ==
    LET at == {j \in from..Len(s) : FileLinkMatchLen(s, j) > 0}
    IN IF at = {} THEN SubSeq(s, from, Len(s))
       ELSE LET i == Min(at)
                n == FileLinkMatchLen(s, i)
            IN SubSeq(s, from, i - 1)
                   \o SubSeq(s, i + Len(FileLinkPrefix), i + n - 1)
                   \o FileLinkReplaceFrom(s, i + n)

RECURSIVE FileIconReplaceFrom(_, _)
FileIconReplaceFrom(s, from) ==
    LET at == {j \in from..Len(s) : FileIconMatchLen(s, j) > 0}
    IN IF at = {} THEN SubSeq(s, from, Len(s))
       ELSE LET i == Min(at)
                n == FileIconMatchLen(s, i)
            IN SubSeq(s, from, i - 1)
                   \o <<PageGlyph>>
                   \o FileIconReplaceFrom(s, i + n)

RECURSIVE ImgLinkReplaceFrom(_, _)
ImgLinkReplaceFrom(s, from) ==
    LET at == {j \in from..Len(s) : ImgLinkMatchLen(s, j) > 0}
    IN IF at = {} THEN SubSeq(s, from, Len(s))
       ELSE LET i == Min(at)
                n == ImgLinkMatchLen(s, i)
            IN SubSeq(s, from, i - 1)
                   \o SubSeq(s, i + Len(ImgLinkPrefix),
                             i + Len(ImgLinkPrefix) + ImgLinkIdLen(s, i) - 1)
                   \o ImgLinkReplaceFrom(s, i + n)

\* fixLinks (server.go 272-282): the seven replacements, in the code's order
FixLinks(input) ==
    LET s1 == MdLinkReplaceFrom(input, 1)
        s2 == FileLinkReplaceFrom(s1, 1)
        s3 == FileIconReplaceFrom(s2, 1)
        s4 == ImgLinkReplaceFrom(s3, 1)
        s5 == ReplaceAll(s4, BoxOpen, BoxOpenRepl)
        s6 == ReplaceAll(s5, BoxDone, BoxDoneRepl)
    IN ReplaceAll(s6, Guidance, GuidanceRepl)

(***************************************************************************)
(* The emoji dictionary and fixEmoji (server.go 285-312).                  *)
(***************************************************************************)
\* the shortcodes, in the order the source lists them
EmojiKeys ==
    << <<"+","1">>, <<"-","1">>, <<"b","u","l","b">>,
       <<"c","o","m","p","u","t","e","r">>,
       <<"i","n","b","o","x","_","t","r","a","y">>,
       <<"l","i","n","k">>, <<"l","o","c","k">>, <<"m","a","g">>,
       <<"m","e","m","o">>, <<"m","o","n","e","y","b","a","g">>,
       <<"m","o","v","i","e","_","c","a","m","e","r","a">>,
       <<"p","o","o","p">>, <<"p","r","a","y">>, <<"s","h","i","t">>,
       <<"s","p","a","r","k","l","e">>, <<"s","p","a","r","k","l","e","s">>,
       <<"s","p","e","e","c","h","_","b","a","l","l","o","o","n">>,
       <<"u","n","l","o","c","k">> >>
\* the glyph of each shortcode, in the same order
EmojiGlyphs ==
    << "U+1F44D", "U+1F44E", "U+1F4A1", "U+1F4BB", "U+1F4E5", "U+1F517",
       "U+1F512", "U+1F50D", "U+1F4DD", "U+1F4B0", "U+1F3A5", "U+1F4A9",
       "U+1F64F", "U+1F4A9", "U+2728", "U+2728", "U+1F4AC", "U+1F513" >>
EmojiKeySet == {EmojiKeys[i] : i \in 1..Len(EmojiKeys)}
\* emojiDict: the map from shortcode to glyph
emojiDict ==
    [k \in EmojiKeySet |->
        EmojiGlyphs[CHOOSE i \in 1..Len(EmojiKeys) : EmojiKeys[i] = k]]

Reverse(q) == [i \in 1..Len(q) |-> q[Len(q) + 1 - i]]
Rotate(q, r) == [i \in 1..Len(q) |-> q[((i - 1 + r) % Len(q)) + 1]]
\* Orders in which `for k, v := range emojiDict` may visit the keys: Go leaves
\* the iteration order of a map unspecified, so every permutation is possible;
\* these are the ones the model tries.
EmojiOrders ==
    {Rotate(EmojiKeys, r) : r \in 0..MaxRot}
        \cup {Reverse(Rotate(EmojiKeys, r)) : r \in 0..MaxRot}

\* ":"+k+":"
Shortcode(k) == <<":">> \o k \o <<":">>

\* the loop of fixEmoji from the n-th key of the order on
RECURSIVE EmojiLoop(_, _, _)
EmojiLoop(s, ord, n) ==
    IF n > Len(ord) THEN s
    ELSE EmojiLoop(ReplaceAll(s, Shortcode(ord[n]), <<emojiDict[ord[n]]>>),
                   ord, n + 1)

\* fixEmoji (server.go 306-312), its map iteration order made a parameter
FixEmoji(input, ord) == EmojiLoop(input, ord, 1)

(***************************************************************************)
(* The state of the program and of its surroundings.                       *)
(***************************************************************************)
VARIABLES
    basicUser, basicPassword,   \* the -bu and -bp flags
    disk,               \* the three export directories, as os.ReadDir finds them
    pc,                 \* where main is
    idx,                \* entries of the current listing main's loop has passed
    mdEntries,          \* the document catalog
    imgLinkToNameMap,   \* the name index of the image directory
    fileLinkToNameMap,  \* the name index of the attachment directory
    req,                \* the request the server took last
    pending,            \* the handler the mux gave it to, "" once it has answered
    resp,               \* the response to it
    fault,              \* the I/O failure met by that request's file read
    input,              \* the text given to the text passes
    ord,                \* the order in which fixEmoji visits the dictionary
    tpc,                \* the passes applied to input so far
    linked, relinked,   \* fixLinks(input), fixLinks(fixLinks(input))
    emojied,            \* fixEmoji(input)
    linksThenEmoji,     \* fixEmoji(fixLinks(input))
    emojiThenLinks      \* fixLinks(fixEmoji(input))

serverVars ==
    <<basicUser, basicPassword, disk, pc, idx, mdEntries, imgLinkToNameMap,
      fileLinkToNameMap, req, pending, resp, fault>>
textVars ==
    <<input, ord, tpc, linked, relinked, emojied, linksThenEmoji,
      emojiThenLinks>>
vars == <<serverVars, textVars>>

(***************************************************************************)
(* File names, and what the directories and requests of the model hold.    *)
(***************************************************************************)
Sep == "_"
Slash == <<"/">>
ExtMd == <<".","m","d">>
ExtJpg == <<".","j","p","g">>
ExtJpeg == <<".","j","p","e","g">>
ExtPng == <<".","p","n","g">>
ExtGif == <<".","g","i","f">>
FaviconPath == <<"/","f","a","v","i","c","o","n",".","i","c","o">>
DocCssPath == <<"/","d","o","c",".","c","s","s">>

File(name) == [name |-> name, isDir |-> FALSE]
Dir(name) == [name |-> name, isDir |-> TRUE]

\* The entries a directory of the model may hold, in the order os.ReadDir
\* lists them (sorted by file name); a listing is a sub-list of its pool.
MdPool == << File(<<"4","2",".","m","d">>), File(<<"7",".","m","d">>) >>
ImgPool ==
    << File(<<"1","_","a",".","p","n","g">>), File(<<"2","_","b","_","a",".","p","n","g">>), File(<<"5","_","r",".","p","d","f">>), Dir(<<"6","_","d",".","g","i","f">>),
       File(<<"a",".","p","n","g">>) >>
FilePool == << File(<<"5","_","r",".","p","d","f">>), File(<<"8","_","a",".","p","n","g">>), File(<<"r",".","p","d","f">>) >>
\* the directories of a run in which the directories are not what varies
DefaultDisk ==
    [md |-> [ok |-> TRUE, entries |-> << File(<<"4","2",".","m","d">>) >>],
     img |-> [ok |-> TRUE, entries |-> << File(<<"1","_","a",".","p","n","g">>) >>],
     file |-> [ok |-> TRUE,
               entries |-> << File(<<"5","_","r",".","p","d","f">>), File(<<"8","_","a",".","p","n","g">>) >>]]

\* the lines of each Markdown file
MdLines(name) ==
    IF name = <<"4","2",".","m","d">>
    THEN << <<"N","o","t","e","s">>, <<"s","e","e"," ","#","{","7","}">>, <<"[","x","]"," ","d","o","n","e"," ",":","b","u","l","b",":">> >>
    ELSE << <<"S","e","v","e","n">> >>

SubList(pool, S) == SelectSeq(pool, LAMBDA e : e \in {pool[i] : i \in S})
Listings(pool) ==
    {[ok |-> TRUE, entries |-> SubList(pool, S)] :
        S \in {T \in SUBSET (1..Len(pool)) : Cardinality(T) <= MaxEntries}}
    \cup {[ok |-> FALSE, entries |-> <<>>]}

\* the ids of the attachment URLs a document may hold
AttachIds == { <<"r",".","p","d","f">>, <<"a",".","p","n","g">> }
\* the references fixLinks makes of those URLs
AttachRefs == {FixLinks(FileLinkPrefix \o id) : id \in AttachIds}

Methods == {"GET", "POST"}
Paths ==
    { Slash, <<"/","4","2",".","m","d">>, <<"/","9",".","m","d">>, <<"/","a",".","p","n","g">>, <<"/","a",".","P","N","G">>, FaviconPath, DocCssPath }
    \cup {Slash \o ref : ref \in AttachRefs}
\* what r.BasicAuth() returns: no credential, or the pair the request carries
NoAuth == [ok |-> FALSE, id |-> "", secret |-> ""]
Auths ==
    {NoAuth} \cup {[ok |-> TRUE, id |-> c[1], secret |-> c[2]] :
                      c \in { <<"u", "p">>, <<"u", "q">>, <<"v", "p">> }}
Requests == [method : Methods, path : Paths, auth : Auths]
Credentials == { <<"", "">>, <<"u", "p">> }

\* I/O failures of reading one file: none, the open fails, the read fails
\* after `at` lines, the close fails
NoFault == [kind |-> "none", at |-> 0]
Faults ==
    {NoFault, [kind |-> "open", at |-> 0], [kind |-> "close", at |-> 0]}
    \cup {[kind |-> "scan", at |-> n] : n \in 0..1}

(***************************************************************************)
(* The name index (server.go 97-117).                                      *)
(***************************************************************************)
EmptyMap == [k \in {} |-> <<>>]
MapPut(m, k, v) == [x \in DOMAIN m \cup {k} |-> IF x = k THEN v ELSE m[x]]

\* name[strings.LastIndex(name, "_")+1:]
LinkKey(name) == SliceFrom(name, LastIndex(name, Sep) + 1)
\* one pass of the loop body: m[key] = entry.Name() unless the entry is a directory
IndexEntry(m, entry) ==
    IF entry.isDir THEN m ELSE MapPut(m, LinkKey(entry.name), entry.name)

(***************************************************************************)
(* head and headAndContent (server.go 237-270).                            *)
(***************************************************************************)
\* the lines the scanner delivers before it stops
Scanned(lines, f) ==
    IF f.kind = "scan" /\ f.at < Len(lines) THEN SubSeq(lines, 1, f.at)
    ELSE lines
ScanFails(lines, f) == f.kind = "scan" /\ f.at < Len(lines)

\* head: the first line, or "" and the error
HeadOf(lines, f) ==
    IF f.kind = "open" THEN [title |-> <<>>, err |-> TRUE]
    ELSE IF Len(Scanned(lines, f)) >= 1
         THEN [title |-> lines[1], err |-> FALSE]
         ELSE [title |-> <<>>, err |-> ScanFails(lines, f)]

RECURSIVE JoinLines(_, _)
JoinLines(lines, n) ==
    IF n > Len(lines) THEN <<>>
    ELSE lines[n] \o <<"\n">> \o JoinLines(lines, n + 1)

\* The error headAndContent returns once the file is open.  The deferred
\* closure assigns f.Close()'s result to the named result err after
\* `err = scanner.Err()` has run, so the scanner's error is overwritten.
ErrAfterDefer(lines, f) == f.kind = "close"

HeadAndContent(lines, f) ==
    IF f.kind = "open"
    THEN [head |-> <<>>, content |-> <<>>, err |-> TRUE]
    ELSE LET got == Scanned(lines, f)
         IN [head |-> IF Len(got) >= 1 THEN got[1] ELSE <<>>,
             content |-> JoinLines(got, 2),
             err |-> ErrAfterDefer(lines, f)]

\* os.ReadFile: the open or the read may fail; the close's error is dropped
ReadFileErr(f) == f.kind \in {"open", "scan"}

(***************************************************************************)
(* Responses.                                                              *)
(***************************************************************************)
NoRead == [dir |-> "", name |-> <<>>]
Response(status, handler) ==
    [status |-> status, challenge |-> FALSE, handler |-> handler,
     read |-> NoRead, title |-> <<>>, text |-> <<>>, docs |-> <<>>]
NoReq == [method |-> "", path |-> <<>>, auth |-> NoAuth]
NoResp == Response(0, "")

\* handleIndex (server.go 165-171)
HandleIndex == [Response(200, "index") EXCEPT !.docs = mdEntries]

\* os.Stat(path.Join(mdDir, fileName)) succeeds
MdExists(fileName) ==
    \E i \in 1..Len(disk.md.entries) : disk.md.entries[i].name = fileName

\* handleMarkdown (server.go 173-193); o is fixEmoji's iteration order
HandleMarkdown(fileName, f, o) ==
    IF ~MdExists(fileName) THEN Response(404, "markdown")
    ELSE LET hc == HeadAndContent(MdLines(fileName), f)
             rd == [dir |-> "md", name |-> fileName]
         IN IF hc.err
            THEN [Response(500, "markdown") EXCEPT !.read = rd]
            ELSE [Response(200, "markdown") EXCEPT
                     !.read = rd,
                     !.title = hc.head,
                     !.text = FixEmoji(FixLinks(hc.content), o)]

\* an image handler that falls back on the attachment index
HandleImageFallsBack(fileName, f) ==
    LET m == IF fileName \in DOMAIN imgLinkToNameMap
             THEN imgLinkToNameMap ELSE fileLinkToNameMap
        d == IF fileName \in DOMAIN imgLinkToNameMap THEN "img" ELSE "file"
    IN IF fileName \notin DOMAIN m THEN Response(404, "image")
       ELSE LET rd == [dir |-> d, name |-> m[fileName]]
            IN IF ReadFileErr(f)
               THEN [Response(500, "image") EXCEPT !.read = rd]
               ELSE [Response(200, "image") EXCEPT !.read = rd]
\* handleImage (server.go 195-210)
HandleImage(fileName, f) ==
    IF fileName \notin DOMAIN imgLinkToNameMap THEN Response(404, "image")
    ELSE LET rd == [dir |-> "img", name |-> imgLinkToNameMap[fileName]]
         IN IF ReadFileErr(f)
            THEN [Response(500, "image") EXCEPT !.read = rd]
            ELSE [Response(200, "image") EXCEPT !.read = rd]

\* handleFile (server.go 212-227)
HandleFile(fileName, f) ==
    IF fileName \notin DOMAIN fileLinkToNameMap THEN Response(404, "file")
    ELSE LET rd == [dir |-> "file", name |-> fileLinkToNameMap[fileName]]
         IN IF ReadFileErr(f)
            THEN [Response(500, "file") EXCEPT !.read = rd]
            ELSE [Response(200, "file") EXCEPT !.read = rd]

\* the switch of catchAll (server.go 146-162): the handler a file name goes to
Classify(fileName) ==
    IF Len(fileName) = 0 THEN "index"
    ELSE IF HasSuffix(ToLower(fileName), ExtMd) THEN "markdown"
    ELSE IF \/ HasSuffix(ToLower(fileName), ExtJpg)
            \/ HasSuffix(ToLower(fileName), ExtJpeg)
            \/ HasSuffix(ToLower(fileName), ExtPng)
            \/ HasSuffix(ToLower(fileName), ExtGif) THEN "image"
    ELSE "file"

\* a credential check that compares the user name alone
AuthRejectsUserOnly(r) ==
    /\ basicUser # ""
    /\ ~r.auth.ok \/ r.auth.id # basicUser
\* the credential check of catchAll (server.go 138-139) fails
AuthRejects(r) ==
    /\ basicUser # ""
    /\ ~r.auth.ok \/ r.auth.id # basicUser \/ r.auth.secret # basicPassword

\* catchAll with the credential check before the method check
CatchAllAuthFirst(r, f, o) ==
    IF AuthRejects(r)
    THEN [Response(401, "catchAll") EXCEPT !.challenge = TRUE]
    ELSE IF r.method # "GET" THEN Response(405, "catchAll")
    ELSE LET fileName == TrimPrefix(r.path, Slash)
             h == Classify(fileName)
         IN CASE h = "index" -> HandleIndex
              [] h = "markdown" -> HandleMarkdown(fileName, f, o)
              [] h = "image" -> HandleImage(fileName, f)
              [] OTHER -> HandleFile(fileName, f)
\* catchAll (server.go 133-163)
CatchAllResponse(r, f, o) ==
    IF r.method # "GET" THEN Response(405, "catchAll")
    ELSE IF AuthRejects(r)
    THEN [Response(401, "catchAll") EXCEPT !.challenge = TRUE]
    ELSE LET fileName == TrimPrefix(r.path, Slash)
             h == Classify(fileName)
         IN CASE h = "index" -> HandleIndex
              [] h = "markdown" -> HandleMarkdown(fileName, f, o)
              [] h = "image" -> HandleImage(fileName, f)
              [] OTHER -> HandleFile(fileName, f)

\* The patterns of http.HandleFunc (server.go 124-126): the path the mux
\* gives to each handler.  "/" takes every path no other pattern takes.
MuxHandler(path) ==
    IF path = FaviconPath THEN "favicon"
    ELSE IF path = DocCssPath THEN "css"
    ELSE "catchAll"

(***************************************************************************)
(* main (server.go 68-131), one action for each directory read and each    *)
(* pass of a scan loop.                                                    *)
(***************************************************************************)
ReadMdDir ==
    /\ pc = "readMd"
    /\ pc' = IF disk.md.ok THEN "scanMd" ELSE "exited"
    /\ idx' = 0
    /\ UNCHANGED <<basicUser, basicPassword, disk, mdEntries, imgLinkToNameMap,
                   fileLinkToNameMap, req, pending, resp,
                   fault, textVars>>

ScanMdEntry ==
    /\ pc = "scanMd"
    /\ idx < Len(disk.md.entries)
    /\ LET entry == disk.md.entries[idx + 1]
       IN IF entry.isDir THEN mdEntries' = mdEntries
          ELSE \E f \in Faults :
                  mdEntries' = Append(mdEntries,
                      [FileName |-> entry.name,
                       Title |-> HeadOf(MdLines(entry.name), f).title])
    /\ idx' = idx + 1
    /\ UNCHANGED <<basicUser, basicPassword, disk, pc, imgLinkToNameMap,
                   fileLinkToNameMap, req, pending, resp,
                   fault, textVars>>

ReadImgDir ==
    /\ pc = "scanMd"
    /\ idx = Len(disk.md.entries)
    /\ pc' = IF disk.img.ok THEN "scanImg" ELSE "exited"
    /\ idx' = 0
    /\ UNCHANGED <<basicUser, basicPassword, disk, mdEntries, imgLinkToNameMap,
                   fileLinkToNameMap, req, pending, resp,
                   fault, textVars>>

ScanImgEntry ==
    /\ pc = "scanImg"
    /\ idx < Len(disk.img.entries)
    /\ imgLinkToNameMap' = IndexEntry(imgLinkToNameMap, disk.img.entries[idx + 1])
    /\ idx' = idx + 1
    /\ UNCHANGED <<basicUser, basicPassword, disk, pc, mdEntries,
                   fileLinkToNameMap, req, pending, resp,
                   fault, textVars>>

ReadFileDir ==
    /\ pc = "scanImg"
    /\ idx = Len(disk.img.entries)
    /\ pc' = IF disk.file.ok THEN "scanFile" ELSE "exited"
    /\ idx' = 0
    /\ UNCHANGED <<basicUser, basicPassword, disk, mdEntries, imgLinkToNameMap,
                   fileLinkToNameMap, req, pending, resp,
                   fault, textVars>>

ScanFileEntry ==
    /\ pc = "scanFile"
    /\ idx < Len(disk.file.entries)
    /\ fileLinkToNameMap' =
           IndexEntry(fileLinkToNameMap, disk.file.entries[idx + 1])
    /\ idx' = idx + 1
    /\ UNCHANGED <<basicUser, basicPassword, disk, pc, mdEntries,
                   imgLinkToNameMap, req, pending, resp,
                   fault, textVars>>

\* a server started while the attachment directory is still being scanned
ListenBeforeScanEnds == pc = "scanFile"
\* main has left the last scan loop and registers the handlers
ListenReady == pc = "scanFile" /\ idx = Len(disk.file.entries)

\* http.ListenAndServe: the server starts, or the call fails and main exits
Listen ==
    /\ ListenReady
    /\ \E bound \in BOOLEAN : pc' = IF bound THEN "serving" ELSE "exited"
    /\ UNCHANGED <<basicUser, basicPassword, disk, idx, mdEntries,
                   imgLinkToNameMap, fileLinkToNameMap, req, pending, resp,
                   fault,
                   textVars>>

(***************************************************************************)
(* The mux and the three registered handlers.  The mux takes a request and *)
(* gives it to the handler of its path; the handler answers it.  No        *)
(* handler writes the program's state, so requests are taken one by one.   *)
(***************************************************************************)
Accept ==
    /\ pc = "serving"
    /\ pending = ""
    /\ \E r \in Requests :
          /\ req' = r
          /\ pending' = MuxHandler(r.path)
    /\ resp' = NoResp
    /\ fault' = NoFault
    /\ UNCHANGED <<basicUser, basicPassword, disk, pc, idx, mdEntries,
                   imgLinkToNameMap, fileLinkToNameMap, textVars>>

\* the fault a response met: none unless the handler read a file
FaultMet(rsp, f) == IF rsp.read = NoRead THEN NoFault ELSE f

CatchAll ==
    /\ pending = "catchAll"
    /\ \E f \in Faults, o \in EmojiOrders :
          LET rsp == CatchAllResponse(req, f, o)
          IN /\ resp' = rsp
             /\ fault' = FaultMet(rsp, f)
    /\ pending' = ""
    /\ UNCHANGED <<basicUser, basicPassword, disk, pc, idx, mdEntries,
                   imgLinkToNameMap, fileLinkToNameMap, req, textVars>>

\* http.NotFound, whatever the request
FaviconHandler ==
    /\ pending = "favicon"
    /\ resp' = Response(404, "favicon")
    /\ pending' = ""
    /\ UNCHANGED <<basicUser, basicPassword, disk, pc, idx, mdEntries,
                   imgLinkToNameMap, fileLinkToNameMap, req, fault, textVars>>

\* write(w, r, docCSS, "text/css"), whatever the request
DocCssHandler ==
    /\ pending = "css"
    /\ resp' = [Response(200, "css") EXCEPT !.text = <<"d","o","c",".","c","s","s">>]
    /\ pending' = ""
    /\ UNCHANGED <<basicUser, basicPassword, disk, pc, idx, mdEntries,
                   imgLinkToNameMap, fileLinkToNameMap, req, fault, textVars>>

(***************************************************************************)
(* The text passes, applied to one input text.                             *)
(***************************************************************************)
NoText == [done |-> FALSE, text |-> <<>>]
Done(t) == [done |-> TRUE, text |-> t]

RECURSIVE Concat(_, _)
Concat(q, n) == IF n > Len(q) THEN <<>> ELSE q[n] \o Concat(q, n + 1)
\* the texts made of at most MaxFrags fragments of a pool
Texts(pool) ==
    {Concat(q, 1) : q \in UNION {[1..n -> pool] : n \in 0..MaxFrags}}

ApplyFixLinks ==
    /\ tpc = "start"
    /\ linked' = Done(FixLinks(input))
    /\ tpc' = "linked"
    /\ UNCHANGED <<serverVars, input, ord, relinked, emojied, linksThenEmoji,
                   emojiThenLinks>>

ReapplyFixLinks ==
    /\ tpc = "linked"
    /\ relinked' = Done(FixLinks(linked.text))
    /\ tpc' = "relinked"
    /\ UNCHANGED <<serverVars, input, ord, linked, emojied, linksThenEmoji,
                   emojiThenLinks>>

ApplyFixEmoji ==
    /\ tpc = "relinked"
    /\ emojied' = Done(FixEmoji(input, ord))
    /\ tpc' = "emojied"
    /\ UNCHANGED <<serverVars, input, ord, linked, relinked, linksThenEmoji,
                   emojiThenLinks>>

\* the order of handleMarkdown (server.go 187)
ApplyEmojiAfterLinks ==
    /\ tpc = "emojied"
    /\ linksThenEmoji' = Done(FixEmoji(linked.text, ord))
    /\ tpc' = "linksThenEmoji"
    /\ UNCHANGED <<serverVars, input, ord, linked, relinked, emojied,
                   emojiThenLinks>>

ApplyLinksAfterEmoji ==
    /\ tpc = "linksThenEmoji"
    /\ emojiThenLinks' = Done(FixLinks(emojied.text))
    /\ tpc' = "done"
    /\ UNCHANGED <<serverVars, input, ord, linked, relinked, emojied,
                   linksThenEmoji>>

(***************************************************************************)
(* The specifications.                                                     *)
(***************************************************************************)
ServerIdle ==
    /\ basicUser = ""
    /\ basicPassword = ""
    /\ disk = [md |-> [ok |-> FALSE, entries |-> <<>>],
               img |-> [ok |-> FALSE, entries |-> <<>>],
               file |-> [ok |-> FALSE, entries |-> <<>>]]
    /\ pc = "exited"
    /\ idx = 0
    /\ mdEntries = <<>>
    /\ imgLinkToNameMap = EmptyMap
    /\ fileLinkToNameMap = EmptyMap
    /\ req = NoReq
    /\ pending = ""
    /\ resp = NoResp
    /\ fault = NoFault

TextIdle ==
    /\ input = <<>>
    /\ ord = EmojiKeys
    /\ tpc = "idle"
    /\ linked = NoText
    /\ relinked = NoText
    /\ emojied = NoText
    /\ linksThenEmoji = NoText
    /\ emojiThenLinks = NoText

\* The process starts: flags parsed, nothing scanned.  Either the
\* credential and the Markdown directory vary, or the two indexed directories.
Init ==
    /\ \/ /\ \E c \in Credentials : basicUser = c[1] /\ basicPassword = c[2]
          /\ \E md \in Listings(MdPool) : disk = [DefaultDisk EXCEPT !.md = md]
       \/ /\ basicUser = "" /\ basicPassword = ""
          /\ \E img \in Listings(ImgPool), file \in Listings(FilePool) :
                disk = [DefaultDisk EXCEPT !.img = img, !.file = file]
    /\ pc = "readMd"
    /\ idx = 0
    /\ mdEntries = <<>>
    /\ imgLinkToNameMap = EmptyMap
    /\ fileLinkToNameMap = EmptyMap
    /\ req = NoReq
    /\ pending = ""
    /\ resp = NoResp
    /\ fault = NoFault
    /\ TextIdle

Next ==
    \/ ReadMdDir
    \/ ScanMdEntry
    \/ ReadImgDir
    \/ ScanImgEntry
    \/ ReadFileDir
    \/ ScanFileEntry
    \/ Listen
    \/ Accept
    \/ CatchAll
    \/ FaviconHandler
    \/ DocCssHandler

Spec == Init /\ [][Next]_vars

\* the text passes are given a text of a pool, fixEmoji one of the orders
TextStart(pool, orders) ==
    /\ ServerIdle
    /\ input \in Texts(pool)
    /\ ord \in orders
    /\ tpc = "start"
    /\ linked = NoText
    /\ relinked = NoText
    /\ emojied = NoText
    /\ linksThenEmoji = NoText
    /\ emojiThenLinks = NoText

NextText ==
    \/ ApplyFixLinks
    \/ ReapplyFixLinks
    \/ ApplyFixEmoji
    \/ ApplyEmojiAfterLinks
    \/ ApplyLinksAfterEmoji

\* fragments of texts for the link rules: a cross-document reference, the two
\* checkbox marks, the guidance path, an attachment URL, an image URL
LinkPool ==
    { <<"#","{","7","}">>, BoxDone, BoxOpen, Guidance, FileLinkPrefix \o <<"a">>,
      ImgLinkPrefix \o <<"b",".","p","n","g","?","w","=","1",")">>, <<" ","x">> }
\* fragments for the emoji pass: dictionary shortcodes whole and in halves,
\* and a shortcode zz the dictionary does not hold
EmojiPool == { <<":","+","1">>, <<":","-","1",":">>, <<":">>, <<":","b","u","l","b",":">>, <<":","z","z">>, <<" ">> }
\* fragments for the two passes together
PassPool ==
    { <<":">> \o FileLinkPrefix, <<"b","u","l","b",":">>, <<":","b","u","l","b",":">>, <<"#","{","7","}">>, BoxDone, Guidance }

SpecLinks == TextStart(LinkPool, {EmojiKeys}) /\ [][NextText]_vars
SpecEmoji == TextStart(EmojiPool, EmojiOrders) /\ [][NextText]_vars
SpecPasses == TextStart(PassPool, EmojiOrders) /\ [][NextText]_vars

(***************************************************************************)
(* What the claims speak of.                                               *)
(***************************************************************************)
\* the server has answered the request req with resp
Answered == pending = "" /\ resp.status # 0
\* the request carries no credential, or not the configured one
BadCredential(r) ==
    ~r.auth.ok \/ r.auth.id # basicUser \/ r.auth.secret # basicPassword
\* the response carries nothing of the export: no file was read for it, and
\* it holds no document, listing or stylesheet
NoContent(rsp) ==
    /\ rsp.read = NoRead
    /\ rsp.title = <<>>
    /\ rsp.text = <<>>
    /\ rsp.docs = <<>>
ReservedPaths == {FaviconPath, DocCssPath}
\* the path segment the router classifies
Segment(r) == SubSeq(r.path, 2, Len(r.path))
\* the request passes catchAll's method and credential checks
Routed(r) ==
    /\ r.path \notin ReservedPaths
    /\ r.method = "GET"
    /\ basicUser = "" \/ ~BadCredential(r)

\* C1 (as stated): with a credential configured, every GET request, for
\* any path, that carries no or a mismatched credential gets 401 with a
\* challenge and no content, and one that carries the right credential is
\* not refused.
C1_Original ==
    (Answered /\ basicUser # "" /\ req.method = "GET") =>
        IF BadCredential(req)
        THEN resp.status = 401 /\ resp.challenge /\ NoContent(resp)
        ELSE resp.status # 401 /\ ~resp.challenge

\* C1 (amended): with a credential configured, every GET request for a path
\* other than /favicon.ico and /doc.css that carries no or a mismatched
\* credential gets 401 with a challenge and no content; with the right
\* credential it is never refused: it is routed, and the index page is 200.
C1_Amended ==
    (Answered /\ basicUser # "" /\ req.method = "GET"
        /\ req.path \notin ReservedPaths) =>
        IF BadCredential(req)
        THEN resp.status = 401 /\ resp.challenge /\ NoContent(resp)
        ELSE /\ resp.status \in {200, 404, 500}
             /\ ~resp.challenge
             /\ resp.handler \in {"index", "markdown", "image", "file"}
             /\ req.path = Slash => resp.status = 200

\* a request with the right user and a wrong password has been refused
C1_Witness ==
    /\ Answered
    /\ basicUser # ""
    /\ req.method = "GET"
    /\ req.path = <<"/","4","2",".","m","d">>
    /\ req.auth.ok /\ req.auth.id = basicUser /\ req.auth.secret # basicPassword
    /\ resp.status = 401

\* the index m holds, for every file of the listing, the part of its name
\* after its last "_" (the whole name when it has none) as a key, mapped to
\* the last listed file with that key, and holds no other key
KeyOf(k, name) ==
    /\ HasSuffix(name, k)
    /\ \A i \in 1..Len(k) : k[i] # Sep
    /\ Len(k) = Len(name) \/ name[Len(name) - Len(k)] = Sep
IndexOf(m, entries) ==
    LET files == {i \in 1..Len(entries) : ~entries[i].isDir}
    IN /\ \A i \in files :
             \E k \in DOMAIN m :
                /\ KeyOf(k, entries[i].name)
                /\ \E j \in files :
                      /\ m[k] = entries[j].name
                      /\ KeyOf(k, entries[j].name)
                      /\ \A l \in files : KeyOf(k, entries[l].name) => l <= j
       /\ \A k \in DOMAIN m : \E i \in files : KeyOf(k, entries[i].name)
\* the index m maps <rest> to <id>_<rest> for every file named <id>_<rest>,
\* whichever "_" of the name separates the two, and a name without "_" to itself
MapsEveryRest(m, entries) ==
    \A i \in 1..Len(entries) :
        ~entries[i].isDir =>
            LET name == entries[i].name
            IN /\ \A p \in 1..Len(name) :
                     name[p] = Sep =>
                        /\ SubSeq(name, p + 1, Len(name)) \in DOMAIN m
                        /\ m[SubSeq(name, p + 1, Len(name))] = name
               /\ (\A p \in 1..Len(name) : name[p] # Sep) =>
                     name \in DOMAIN m /\ m[name] = name
ImgScanned ==
    \/ pc \in {"scanFile", "serving"}
    \/ pc = "scanImg" /\ idx = Len(disk.img.entries)
FileScanned ==
    \/ pc = "serving"
    \/ pc = "scanFile" /\ idx = Len(disk.file.entries)

\* C2 (as stated): after the scan, every file <id>_<rest> is indexed under
\* <rest>, also when <rest> holds a "_", and a file without "_" under its name.
C2_Original ==
    /\ ImgScanned => MapsEveryRest(imgLinkToNameMap, disk.img.entries)
    /\ FileScanned => MapsEveryRest(fileLinkToNameMap, disk.file.entries)

\* C2 (amended): after the scan, the index holds for every file the part of
\* its name after its LAST "_" (the whole name when it has none), mapped to
\* the last listed file with that key.
C2_Amended ==
    /\ ImgScanned => IndexOf(imgLinkToNameMap, disk.img.entries)
    /\ FileScanned => IndexOf(fileLinkToNameMap, disk.file.entries)

\* both directories are scanned; the image directory held a name with two
\* "_" and a name without any, which share the key a.png
C2_Witness ==
    /\ FileScanned
    /\ \E i \in 1..Len(disk.img.entries) : disk.img.entries[i].name = <<"2","_","b","_","a",".","p","n","g">>
    /\ \E i \in 1..Len(disk.img.entries) : disk.img.entries[i].name = <<"a",".","p","n","g">>
    /\ Len(disk.file.entries) > 0

\* what the claims call an image name, a document name
ImageExts == {ExtJpg, ExtJpeg, ExtPng, ExtGif}
IsImageName(n) == \E e \in ImageExts : HasSuffix(ToLower(n), e)
IsMdName(n) == HasSuffix(ToLower(n), ExtMd)

\* C6: once the existence check has succeeded, a failure of the open or of
\* the read of the file is answered with 500.
ReadFailed ==
    \/ fault.kind = "open"
    \/ /\ fault.kind = "scan"
       /\ resp.handler = "markdown" => fault.at < Len(MdLines(resp.read.name))
C6_Claim ==
    (Answered /\ resp.handler \in {"markdown", "image", "file"}
        /\ resp.read # NoRead /\ ReadFailed) => resp.status = 500

\* C7 (as stated): every request with another method than GET gets 405 and
\* no content, whatever its path and credential.
C7_Original ==
    (Answered /\ req.method # "GET") =>
        resp.status = 405 /\ NoContent(resp)

\* C7 (amended): every request with another method than GET for a path other
\* than /favicon.ico and /doc.css gets 405 from catchAll, with or without a
\* valid credential, reaches no content handler and reads no file.
C7_Amended ==
    (Answered /\ req.method # "GET" /\ req.path \notin ReservedPaths) =>
        /\ resp.status = 405
        /\ ~resp.challenge
        /\ resp.handler = "catchAll"
        /\ NoContent(resp)

\* a POST without a valid credential, for a document that exists, got 405
C7_Witness ==
    /\ Answered
    /\ basicUser # ""
    /\ req.method = "POST"
    /\ req.path = <<"/","4","2",".","m","d">>
    /\ BadCredential(req)
    /\ MdExists(<<"4","2",".","m","d">>)
    /\ resp.status = 405

\* C8: a routed request for an image name is resolved through the image
\* index alone, one for another name that is no document name through the
\* attachment index alone, and one for a document name with no file is 404.
ResolvedBy(m, dir) ==
    IF Segment(req) \in DOMAIN m
    THEN /\ resp.read = [dir |-> dir, name |-> m[Segment(req)]]
         /\ resp.status \in {200, 500}
    ELSE resp.status = 404 /\ NoContent(resp)
C8_NoCrossLookup ==
    (Answered /\ Routed(req) /\ Len(Segment(req)) > 0) =>
        IF IsMdName(Segment(req))
        THEN ~MdExists(Segment(req)) => resp.status = 404 /\ NoContent(resp)
        ELSE IF IsImageName(Segment(req))
             THEN ResolvedBy(imgLinkToNameMap, "img")
             ELSE ResolvedBy(fileLinkToNameMap, "file")

\* a request for a.png, a key of the attachment index and not of the image
\* index, got 404
C8_Witness ==
    /\ Answered
    /\ Routed(req)
    /\ req.path = <<"/","a",".","p","n","g">>
    /\ <<"a",".","p","n","g">> \in DOMAIN fileLinkToNameMap
    /\ <<"a",".","p","n","g">> \notin DOMAIN imgLinkToNameMap
    /\ resp.status = 404

\* C9: a request is taken only while the server serves, and the server
\* serves only once the three directories were listed and the catalog and the
\* two indices hold every file of them; after a failed listing the process
\* has exited and has taken no request.
CatalogOf(entries) ==
    LET files == SelectSeq(entries, LAMBDA e : ~e.isDir)
    IN /\ Len(mdEntries) = Len(files)
       /\ \A i \in 1..Len(files) : mdEntries[i].FileName = files[i].name
Built ==
    /\ disk.md.ok /\ disk.img.ok /\ disk.file.ok
    /\ CatalogOf(disk.md.entries)
    /\ IndexOf(imgLinkToNameMap, disk.img.entries)
    /\ IndexOf(fileLinkToNameMap, disk.file.entries)
C9_ServesOnlyOnceBuilt ==
    /\ (pc = "serving" \/ pending # "" \/ req # NoReq \/ resp # NoResp) =>
          pc = "serving" /\ Built
    /\ ~(disk.md.ok /\ disk.img.ok /\ disk.file.ok) =>
          pc \in {"readMd", "scanMd", "scanImg", "exited"}

\* the image handler has answered from an index of two keys
C9_Witness ==
    /\ Answered
    /\ resp.handler = "image"
    /\ resp.status = 200
    /\ Cardinality(DOMAIN imgLinkToNameMap) = 2
    /\ Len(disk.file.entries) = 2

\* C10: a routed request for a reference that fixLinks made of an attachment
\* URL is given to the attachment handler.
C10_Claim ==
    (Answered /\ Routed(req) /\ Segment(req) \in AttachRefs) =>
        resp.handler = "file"

(***************************************************************************)
(* What the claims about the text passes speak of.                         *)
(***************************************************************************)
\* the number of places of t at which lit stands
Occurrences(t, lit) == Cardinality({i \in 1..Len(t) : HasAt(t, i, lit)})
\* the number of elements of t equal to c
Count(t, c) == Cardinality({i \in 1..Len(t) : t[i] = c})

\* the hyperlinks of a text: every URL that starts with https://, taken to
\* the end of its run of URL characters, and every target of an href
UrlChars ==
    Digits \cup Lowers \cup Uppers
        \cup {".", "/", ":", "-", "_", "?", "=", "&", "%", "#"}
UrlsOf(t) ==
    {SubSeq(t, i, i + SpanLen(t, i, UrlChars) - 1) :
        i \in {j \in 1..Len(t) : HasAt(t, j, <<"h","t","t","p","s",":","/","/">>)}}
HrefsOf(t) ==
    {SubSeq(t, i + 6, i + 5 + SpanLen(t, i + 6, UrlChars)) :
        i \in {j \in 1..Len(t) : HasAt(t, j, <<"h","r","e","f","=","\"">>)}}
Hyperlinks(t) == UrlsOf(t) \cup HrefsOf(t)
\* the checkbox markup of a text: how many boxes of each kind it holds
Checkboxes(t) == <<Occurrences(t, BoxOpenRepl), Occurrences(t, BoxDoneRepl)>>
\* the text holds an attachment URL or an image URL
HasUrl(t) ==
    \E i \in 1..Len(t) : FileLinkMatchLen(t, i) > 0 \/ ImgLinkMatchLen(t, i) > 0

\* C3: fixLinks applied to its own output leaves the hyperlinks
\* and the checkbox markup of that output as they are.
C3_Claim ==
    relinked.done =>
        /\ Hyperlinks(relinked.text) = Hyperlinks(linked.text)
        /\ Checkboxes(relinked.text) = Checkboxes(linked.text)

\* the places of t at which a shortcode of the dictionary stands, each with
\* the shortcode's length and glyph
DictOccurrences(t) ==
    UNION {{[at |-> i, len |-> Len(k) + 2, glyph |-> emojiDict[k]] :
               k \in {c \in EmojiKeySet : HasAt(t, i, <<":">> \o c \o <<":">>)}} :
           i \in 1..Len(t)}
Glyphs == {EmojiGlyphs[i] : i \in 1..Len(EmojiGlyphs)}
Unknown == <<":","z","z",":">>

\* C4: fixEmoji replaces every occurrence of every dictionary
\* shortcode by its glyph, leaves a shortcode outside the dictionary as it
\* is, and gives the same text whatever the order of the entries.
C4_Claim ==
    emojied.done =>
        /\ \A g \in Glyphs :
              Count(emojied.text, g) =
                  Cardinality({o \in DictOccurrences(input) : o.glyph = g})
        /\ Occurrences(emojied.text, Unknown) = Occurrences(input, Unknown)
        /\ \A o \in EmojiOrders : FixEmoji(input, o) = emojied.text

=============================================================================
